---- MODULE Spec2Model ----
(***************************************************************************)
(* Model of the personality pipeline of crew_agents.py and of the Gemini   *)
(* HTTP client of generator.py.                                            *)
(*                                                                         *)
(* A text (Python str) is a sequence of one-character strings.  A decoded  *)
(* JSON value (the Python object json.loads builds) is a tagged record:    *)
(*   [t |-> "lit", l |-> "null" | "true" | "false"]   None / True / False  *)
(*   [t |-> "num", m |-> i, k |-> n, int |-> b]       the number m / 10^k  *)
(*   [t |-> "str", s |-> text]                                             *)
(*   [t |-> "arr", a |-> sequence of values]          list                 *)
(*   [t |-> "obj", o |-> sequence of [k, v]]          dict, insertion order*)
(* The texts of the model hold no backslash, no exponent after a digit    *)
(* and no "NaN"/"Infinity".                                                *)
(***************************************************************************)
EXTENDS Integers, Sequences, FiniteSets, TLC

(* Characters *)

DigitChars == <<"0", "1", "2", "3", "4", "5", "6", "7", "8", "9">>

Digit == {DigitChars[i] : i \in 1..10}

DigitVal(c) == (CHOOSE i \in 1..10 : DigitChars[i] = c) - 1

\* str.strip() / json whitespace restricted to the characters of the model
White == {" ", "\n"}

Pow10(n) == IF n = 0 THEN 1
            ELSE IF n = 1 THEN 10
            ELSE IF n = 2 THEN 100
            ELSE IF n = 3 THEN 1000
            ELSE IF n = 4 THEN 10000
            ELSE IF n = 5 THEN 100000
            ELSE 1000000

\* The element of a one-element set.  Below, "x \in {e}" in a set constructor
\* names the value of e, and The(...) takes the result out of the set.
The(S) == CHOOSE x \in S : TRUE

(* Python values *)

NoneV == [t |-> "lit", l |-> "null"]

TrueV == [t |-> "lit", l |-> "true"]

FalseV == [t |-> "lit", l |-> "false"]

StrV(s) == [t |-> "str", s |-> s]

NumV(m, k, isint) == [t |-> "num", m |-> m, k |-> k, int |-> isint]

ArrV(a) == [t |-> "arr", a |-> a]

ObjV(o) == [t |-> "obj", o |-> o]

\* bool(v): the truth value Python gives a decoded JSON value
Truthy(v) ==
    CASE v.t = "lit" -> v.l = "true"
      [] v.t = "num" -> v.m # 0
      [] v.t = "str" -> Len(v.s) > 0
      [] v.t = "arr" -> Len(v.a) > 0
      [] v.t = "obj" -> Len(v.o) > 0

IsDict(v) == v.t = "obj"

\* key in d, for a dict d
HasKey(d, key) == \E i \in 1..Len(d.o) : d.o[i].k = key

\* d[key], for a dict d that has the key
GetKey(d, key) == d.o[CHOOSE i \in 1..Len(d.o) : d.o[i].k = key].v

\* d.get(key, dflt)
DictGet(d, key, dflt) == IF HasKey(d, key) THEN GetKey(d, key) ELSE dflt

\* d[key] = val on the pair list of a dict: a new key is appended, an
\* existing key keeps its position and takes the new value
DictPut(o, key, val) ==
    IF \E i \in 1..Len(o) : o[i].k = key
    THEN [i \in 1..Len(o) |-> IF o[i].k = key THEN [k |-> key, v |-> val] ELSE o[i]]
    ELSE Append(o, [k |-> key, v |-> val])

(* json.loads, as CPython's json.decoder / json.scanner compute it *)

At(s, p) == IF p >= 1 /\ p <= Len(s) THEN s[p] ELSE "EOF"

\* WHITESPACE.match(s, p).end()
RECURSIVE SkipWs(_, _)
SkipWs(s, p) == IF At(s, p) \in White THEN SkipWs(s, p + 1) ELSE p

PFail == [ok |-> FALSE, v |-> NoneV, p |-> 0]

POk(v, p) == [ok |-> TRUE, v |-> v, p |-> p]

\* s[p:].startswith(w)
StartsWithAt(s, p, w) ==
    /\ p + Len(w) - 1 <= Len(s)
    /\ \A i \in 1..Len(w) : s[p + i - 1] = w[i]

\* py_scanstring (strict): p is the position after the opening quote; a
\* newline inside a string is an invalid control character
RECURSIVE ScanString(_, _, _)
ScanString(s, p, acc) ==
    LET c == At(s, p) IN
    IF c = "EOF" \/ c = "\n" THEN PFail
    ELSE IF c = "\"" THEN POk(StrV(acc), p + 1)
    ELSE ScanString(s, p + 1, Append(acc, c))

\* \d* from p: [m, n, p] with the digits read as the number m of n digits
RECURSIVE ScanDigits(_, _, _, _)
ScanDigits(s, p, m, n) ==
    IF At(s, p) \in Digit
    THEN ScanDigits(s, p + 1, 10 * m + DigitVal(s[p]), n + 1)
    ELSE [m |-> m, n |-> n, p |-> p]

\* NUMBER_RE = (-?(?:0|[1-9]\d*))(\.\d+)?  (no exponent in the texts of the model)
ScanNumber(s, p) ==
    LET neg == At(s, p) = "-"
        q == IF neg THEN p + 1 ELSE p
        ip == IF At(s, q) = "0" THEN [m |-> 0, n |-> 1, p |-> q + 1]
              ELSE ScanDigits(s, q, 0, 0)
        fp == IF At(s, ip.p) = "." THEN ScanDigits(s, ip.p + 1, 0, 0)
              ELSE [m |-> 0, n |-> 0, p |-> ip.p]
        sgn == IF neg THEN -1 ELSE 1
    IN  IF ip.n = 0 THEN PFail
        ELSE IF fp.n = 0 THEN POk(NumV(sgn * ip.m, 0, TRUE), ip.p)
        ELSE POk(NumV(sgn * (ip.m * Pow10(fp.n) + fp.m), fp.n, FALSE), fp.p)

W_null == <<"n", "u", "l", "l">>

W_true == <<"t", "r", "u", "e">>

W_false == <<"f", "a", "l", "s", "e">>

RECURSIVE ScanOnce(_, _)
RECURSIVE ScanMembers(_, _, _)
RECURSIVE ScanElements(_, _, _)

\* JSONObject after a key's opening quote at p - 1: key, ':', value, then
\* '}' or ',' and the next key
ScanMembers(s, p, acc) ==
    LET key == ScanString(s, p, <<>>) IN
    IF ~key.ok THEN PFail
    ELSE LET c1 == SkipWs(s, key.p) IN
         IF At(s, c1) # ":" THEN PFail
         ELSE LET val == ScanOnce(s, SkipWs(s, c1 + 1)) IN
              IF ~val.ok THEN PFail
              ELSE LET acc2 == DictPut(acc, key.v.s, val.v)
                       c2 == SkipWs(s, val.p)
                   IN  IF At(s, c2) = "}" THEN POk(ObjV(acc2), c2 + 1)
                       ELSE IF At(s, c2) # "," THEN PFail
                       ELSE LET c3 == SkipWs(s, c2 + 1) IN
                            IF At(s, c3) # "\"" THEN PFail
                            ELSE ScanMembers(s, c3 + 1, acc2)

\* JSONArray: value, then ']' or ',' and the next value
ScanElements(s, p, acc) ==
    LET val == ScanOnce(s, p) IN
    IF ~val.ok THEN PFail
    ELSE LET acc2 == Append(acc, val.v)
             c2 == SkipWs(s, val.p)
         IN  IF At(s, c2) = "]" THEN POk(ArrV(acc2), c2 + 1)
             ELSE IF At(s, c2) # "," THEN PFail
             ELSE ScanElements(s, SkipWs(s, c2 + 1), acc2)

\* scanner.py_make_scanner._scan_once
ScanOnce(s, p) ==
    LET c == At(s, p) IN
    IF c = "\"" THEN ScanString(s, p + 1, <<>>)
    ELSE IF c = "{" THEN
        LET q == SkipWs(s, p + 1) IN
        IF At(s, q) = "}" THEN POk(ObjV(<<>>), q + 1)
        ELSE IF At(s, q) # "\"" THEN PFail
        ELSE ScanMembers(s, q + 1, <<>>)
    ELSE IF c = "[" THEN
        LET q == SkipWs(s, p + 1) IN
        IF At(s, q) = "]" THEN POk(ArrV(<<>>), q + 1)
        ELSE ScanElements(s, q, <<>>)
    ELSE IF StartsWithAt(s, p, W_null) THEN POk(NoneV, p + 4)
    ELSE IF StartsWithAt(s, p, W_true) THEN POk(TrueV, p + 4)
    ELSE IF StartsWithAt(s, p, W_false) THEN POk(FalseV, p + 5)
    ELSE ScanNumber(s, p)

\* json.loads(text): [ok, v]; ok = FALSE stands for JSONDecodeError
JsonLoads(text) ==
    The({IF r.ok /\ SkipWs(text, r.p) = Len(text) + 1
         THEN [ok |-> TRUE, v |-> r.v]
         ELSE [ok |-> FALSE, v |-> NoneV] :
            r \in {ScanOnce(text, SkipWs(text, 1))}})

\* text.find(c) and text.rfind(c) as 1-based positions, 0 for Python's -1
Find(text, c) ==
    IF \E i \in 1..Len(text) : text[i] = c
    THEN CHOOSE i \in 1..Len(text) : text[i] = c /\ \A j \in 1..(i - 1) : text[j] # c
    ELSE 0

RFind(text, c) ==
    IF \E i \in 1..Len(text) : text[i] = c
    THEN CHOOSE i \in 1..Len(text) : text[i] = c /\ \A j \in (i + 1)..Len(text) : text[j] # c
    ELSE 0

\* the except branch of safe_json_parse, with start and end as found
BraceParse(text, start, end) ==
    IF start # 0 /\ end # 0 /\ start < end
    THEN The({IF sub.ok THEN sub.v ELSE NoneV :
                 sub \in {JsonLoads(SubSeq(text, start, end))}})
    ELSE NoneV

\* mutant: no recovery of a JSON object wrapped in other text
safe_json_parse_StrictOnly(text) ==
    The({IF full.ok THEN full.v ELSE NoneV : full \in {JsonLoads(text)}})

\* safe_json_parse(text); None both for "no structure" and for JSON null
safe_json_parse(text) ==
    The({IF full.ok THEN full.v
         ELSE The({BraceParse(text, start, end) :
                      start \in {Find(text, "{")}, end \in {RFind(text, "}")}}) :
            full \in {JsonLoads(text)}})

(* str helpers *)

\* the position of the last character that is not whitespace, from p down
RECURSIVE RSkipWs(_, _)
RSkipWs(s, p) == IF At(s, p) \in White THEN RSkipWs(s, p - 1) ELSE p

\* s.strip()
Strip(s) == SubSeq(s, SkipWs(s, 1), RSkipWs(s, Len(s)))

\* s.lstrip(chars)
RECURSIVE LStripChars(_, _)
LStripChars(s, chars) ==
    IF Len(s) > 0 /\ Head(s) \in chars THEN LStripChars(Tail(s), chars) ELSE s

\* s.rstrip(chars)
RECURSIVE RStripChars(_, _)
RStripChars(s, chars) ==
    IF Len(s) > 0 /\ s[Len(s)] \in chars
    THEN RStripChars(SubSeq(s, 1, Len(s) - 1), chars)
    ELSE s

\* w in s, for two strings
Contains(s, w) == \E p \in 1..(Len(s) + 1) : StartsWithAt(s, p, w)

\* s[:n]
Take(s, n) == SubSeq(s, 1, IF Len(s) < n THEN Len(s) ELSE n)

\* s.splitlines(), on "\n"
RECURSIVE SplitLinesFrom(_, _, _, _)
SplitLinesFrom(s, p, cur, acc) ==
    IF p > Len(s) THEN (IF Len(cur) > 0 THEN Append(acc, cur) ELSE acc)
    ELSE IF s[p] = "\n" THEN SplitLinesFrom(s, p + 1, <<>>, Append(acc, cur))
    ELSE SplitLinesFrom(s, p + 1, Append(cur, s[p]), acc)

SplitLines(s) == SplitLinesFrom(s, 1, <<>>, <<>>)

\* [f(x) for x in seq if keep(x)] with f = strip and keep = non-empty strip
RECURSIVE StrippedNonEmpty(_)
StrippedNonEmpty(ls) ==
    IF Len(ls) = 0 THEN <<>>
    ELSE IF Len(Strip(Head(ls))) > 0
         THEN <<Strip(Head(ls))>> \o StrippedNonEmpty(Tail(ls))
         ELSE StrippedNonEmpty(Tail(ls))

(* float() *)

FFail == [ok |-> FALSE, m |-> 0, k |-> 0]

FOk(m, k) == [ok |-> TRUE, m |-> m, k |-> k]

\* float(s) for a str s: surrounding whitespace, a sign, digits with an
\* optional point (at least one digit); anything else is a ValueError
FloatOfStr(s) ==
    LET b == Strip(s)
        sg == At(b, 1) \in {"-", "+"}
        q == IF sg THEN 2 ELSE 1
        ip == ScanDigits(b, q, 0, 0)
        fp == IF At(b, ip.p) = "." THEN ScanDigits(b, ip.p + 1, 0, 0)
              ELSE [m |-> 0, n |-> 0, p |-> ip.p]
        sgn == IF At(b, 1) = "-" THEN -1 ELSE 1
    IN  IF ip.n + fp.n = 0 \/ fp.p # Len(b) + 1 THEN FFail
        ELSE FOk(sgn * (ip.m * Pow10(fp.n) + fp.m), fp.n)

\* float(v) for a decoded JSON value: a number, a bool, a str; None, list
\* and dict are a TypeError
PyFloat(v) ==
    CASE v.t = "num" -> FOk(v.m, v.k)
      [] v.t = "lit" -> IF v.l = "null" THEN FFail
                        ELSE FOk(IF v.l = "true" THEN 1 ELSE 0, 0)
      [] v.t = "str" -> FloatOfStr(v.s)
      [] OTHER -> FFail

\* float(str(v).strip().rstrip("%")); str() of None, of a list and of a dict
\* begins with "N", "[" and "{" and is never a float literal
PyFloatOfStripped(v) ==
    IF v.t = "str" THEN FloatOfStr(RStripChars(Strip(v.s), {"%"}))
    ELSE FFail

\* mutant: rounding without clamping
ClampRound_NoClamp(m, k) ==
    IF k <= 1 THEN {m * Pow10(1 - k)}
    ELSE LET d == Pow10(k - 1)
             q == m \div d
             r == m % d
         IN  IF 2 * r < d THEN {q}
             ELSE IF 2 * r > d THEN {q + 1}
             ELSE {q, q + 1}

\* round(max(0.0, min(100.0, m / 10^k)), 1) in tenths.  A decimal tie that
\* is exact in binary (a multiple of 1/4) rounds half to even; for any other
\* tie the direction follows the binary approximation of the literal, which
\* the model leaves open.
ClampRound(m, k) ==
    IF m <= 0 THEN {0}
    ELSE IF m >= 100 * Pow10(k) THEN {1000}
    ELSE IF k <= 1 THEN {m * Pow10(1 - k)}
    ELSE LET d == Pow10(k - 1)
             q == m \div d
             r == m % d
         IN  IF 2 * r < d THEN {q}
             ELSE IF 2 * r > d THEN {q + 1}
             ELSE IF (2 * q + 1) % 5 = 0
                  THEN {IF q % 2 = 0 THEN q ELSE q + 1}
                  ELSE {q, q + 1}

(* Agent runner functions of crew_agents.py *)

K_traits == <<"t", "r", "a", "i", "t", "s">>

K_summary == <<"s", "u", "m", "m", "a", "r", "y">>

K_recommendations ==
    <<"r", "e", "c", "o", "m", "m", "e", "n", "d", "a", "t", "i", "o", "n", "s">>

K_validating_message ==
    <<"v", "a", "l", "i", "d", "a", "t", "i", "n", "g", "_", "m", "e", "s", "s", "a", "g", "e">>

K_validation == <<"v", "a", "l", "i", "d", "a", "t", "i", "o", "n">>

EmptyStr == StrV(<<>>)

EmptyList == ArrV(<<>>)

\* the scores one value can get in the loop of the primary path
ScorePrimary(v) ==
    LET f1 == PyFloat(v)
        f2 == PyFloatOfStripped(v)
    IN  IF f1.ok THEN ClampRound(f1.m, f1.k)
        ELSE IF f2.ok THEN ClampRound(f2.m, f2.k)
        ELSE {0}

\* the scores one value can get in the loop of the retry path
ScoreRetry(v) ==
    LET f1 == PyFloat(v)
    IN  IF f1.ok THEN ClampRound(f1.m, f1.k) ELSE {0}

\* for k, v in d.items(): traits[k] = score(v), over the pair list o of d.
\* The trait map is a pair list with scores in tenths.
RECURSIVE ScoreAll(_, _)
ScoreAll(o, primary) ==
    IF Len(o) = 0 THEN {<<>>}
    ELSE LET last == o[Len(o)] IN
         {DictPut(rest, last.k, sc) :
              rest \in ScoreAll(SubSeq(o, 1, Len(o) - 1), primary),
              sc \in (IF primary THEN ScorePrimary(last.v) ELSE ScoreRetry(last.v))}

StageOk(traits) == [st |-> "ok", traits |-> traits, err |-> "none"]

StageRetry == [st |-> "retry", traits |-> <<>>, err |-> "none"]

StageRaise(e) == [st |-> "raise", traits |-> <<>>, err |-> e]

\* for k, v in tv.items(): ..., for the value tv of "traits"
ScoreItems(tv, primary) ==
    IF IsDict(tv) THEN {StageOk(t) : t \in ScoreAll(tv.o, primary)}
    ELSE {StageRaise("AttributeError")}

\* mutant: the primary response is never accepted
trait_primary_AlwaysRetry(raw) == {StageRetry}

\* run_trait_agent after the primary call returned raw
trait_primary(raw) ==
    UNION {IF Truthy(parsed) /\ IsDict(parsed) /\ HasKey(parsed, K_traits)
           THEN UNION {ScoreItems(tv, TRUE) : tv \in {GetKey(parsed, K_traits)}}
           ELSE {StageRetry} :
              parsed \in {safe_json_parse(raw)}}

\* "traits" in parsed2 for a truthy parsed2: "yes", "no" or "TypeError"
InTest(v, key) ==
    CASE v.t = "obj" -> IF HasKey(v, key) THEN "yes" ELSE "no"
      [] v.t = "arr" -> IF \E i \in 1..Len(v.a) : v.a[i] = StrV(key)
                        THEN "yes" ELSE "no"
      [] v.t = "str" -> IF Contains(v.s, key) THEN "yes" ELSE "no"
      [] OTHER -> "TypeError"

\* run_trait_agent after the retry call returned raw2
trait_retry(raw2) ==
    UNION {IF ~Truthy(parsed2) THEN {StageOk(<<>>)}
           ELSE IF InTest(parsed2, K_traits) = "TypeError" THEN {StageRaise("TypeError")}
           ELSE IF InTest(parsed2, K_traits) = "no" THEN {StageOk(<<>>)}
           ELSE IF ~IsDict(parsed2) THEN {StageRaise("TypeError")}
           ELSE UNION {ScoreItems(tv, FALSE) : tv \in {GetKey(parsed2, K_traits)}} :
              parsed2 \in {safe_json_parse(raw2)}}

SummaryLimit == 1000

\* run_summary_agent after the call returned raw
run_summary_agent(raw) ==
    The({IF Truthy(parsed) /\ IsDict(parsed) /\ HasKey(parsed, K_summary)
         THEN GetKey(parsed, K_summary)
         ELSE StrV(Take(Strip(raw), SummaryLimit)) :
            parsed \in {safe_json_parse(raw)}})

\* a or b
PyOr(a, b) == IF Truthy(a) THEN a ELSE b

BulletChars == {"-", "0", "1", "2", "3", "4", "5", "6", "7", "8", "9", ".", " "}

\* the recommendation-like lines, each with its leading marker stripped
RECURSIVE RecLines(_)
RecLines(lines) ==
    IF Len(lines) = 0 THEN <<>>
    ELSE LET l == Head(lines) IN
         IF l[1] = "-" \/ l[1] \in Digit
         THEN <<StrV(Strip(LStripChars(l, BulletChars)))>> \o RecLines(Tail(lines))
         ELSE RecLines(Tail(lines))

ValidatorOut(recs, msg) ==
    [st |-> "ok", recommendations |-> recs, validating_message |-> msg, err |-> "none"]

ValidatorRaise(e) ==
    [st |-> "raise", recommendations |-> EmptyList, validating_message |-> EmptyStr, err |-> e]

\* the line heuristic of run_validator_agent on the raw text
validator_fallback(raw) ==
    The({IF Len(lines) = 0 THEN ValidatorOut(EmptyList, EmptyStr)
         ELSE ValidatorOut(
                  The({IF Len(recs) = 0
                       THEN ArrV([i \in 1..Len(Take(lines, 3)) |-> StrV(lines[i])])
                       ELSE ArrV(recs) :
                          recs \in {RecLines(lines)}}),
                  StrV(lines[Len(lines)])) :
            lines \in {StrippedNonEmpty(SplitLines(raw))}})

\* mutant: without a parsed structure the defaults are returned
run_validator_agent_NoHeuristic(raw) ==
    The({IF Truthy(parsed)
         THEN IF ~IsDict(parsed) THEN ValidatorRaise("AttributeError")
              ELSE ValidatorOut(
                       IF DictGet(parsed, K_recommendations, EmptyList).t = "arr"
                       THEN DictGet(parsed, K_recommendations, EmptyList)
                       ELSE EmptyList,
                       PyOr(DictGet(parsed, K_validating_message, EmptyStr),
                            DictGet(parsed, K_validation, EmptyStr)))
         ELSE ValidatorOut(EmptyList, EmptyStr) :
            parsed \in {safe_json_parse(raw)}})

\* run_validator_agent after the call returned raw
run_validator_agent(raw) ==
    The({IF Truthy(parsed)
         THEN IF ~IsDict(parsed) THEN ValidatorRaise("AttributeError")
              ELSE ValidatorOut(
                       IF DictGet(parsed, K_recommendations, EmptyList).t = "arr"
                       THEN DictGet(parsed, K_recommendations, EmptyList)
                       ELSE EmptyList,
                       PyOr(DictGet(parsed, K_validating_message, EmptyStr),
                            DictGet(parsed, K_validation, EmptyStr)))
         ELSE validator_fallback(raw) :
            parsed \in {safe_json_parse(raw)}})

(* Prompt templates and str.format *)

\* A prompt is a sequence of segments.  A "lit" segment is a stretch of
\* template text named by id; raw = TRUE while its doubled braces "{{", "}}"
\* are as written in the source, FALSE once str.format has replaced them by
\* single braces.  A "field" segment is an unreplaced "{answers}" or
\* "{traits_json}".  "answers" and "traits_json" segments hold the
\* substituted values.
Lit(id, braces) ==
    [kind |-> "lit", id |-> id, raw |-> braces, ans |-> <<>>, json |-> <<>>]

Field(name) ==
    [kind |-> "field", id |-> name, raw |-> FALSE, ans |-> <<>>, json |-> <<>>]

AnswersSeg(lines) ==
    [kind |-> "answers", id |-> "answers", raw |-> FALSE, ans |-> lines, json |-> <<>>]

TraitsJsonSeg(text) ==
    [kind |-> "traits_json", id |-> "traits_json", raw |-> FALSE, ans |-> <<>>, json |-> text]

TRAIT_PROMPT == <<Lit("trait_instructions", TRUE), Field("answers"), Lit("newline", FALSE)>>

SUMMARY_PROMPT ==
    <<Lit("summary_instructions", TRUE), Field("answers"),
      Lit("traits_heading", FALSE), Field("traits_json"), Lit("newline", FALSE)>>

VALIDATOR_PROMPT ==
    <<Lit("validator_instructions", TRUE), Field("answers"),
      Lit("traits_heading", FALSE), Field("traits_json"), Lit("newline", FALSE)>>

\* "\nImportant: Return only JSON and nothing else."
STRICT_SUFFIX == Lit("return_only_json", FALSE)

\* "\n".join(f"{i+1}. {a}" for i, a in enumerate(answers)): the numbered lines
AnswerLines(ans) == [i \in 1..Len(ans) |-> [n |-> i, a |-> ans[i]]]

\* template.format(answers=..., traits_json=...)
Format(template, ans, traits_json) ==
    [i \in 1..Len(template) |->
        LET seg == template[i] IN
        IF seg.kind = "field"
        THEN IF seg.id = "answers" THEN AnswersSeg(AnswerLines(ans))
             ELSE TraitsJsonSeg(traits_json)
        ELSE [seg EXCEPT !.raw = FALSE]]

\* str(n) for n >= 0
RECURSIVE DigitsOf(_)
DigitsOf(n) ==
    IF n < 10 THEN <<DigitChars[n + 1]>>
    ELSE Append(DigitsOf(n \div 10), DigitChars[(n % 10) + 1])

\* repr of the float t / 10, for a score t in tenths
FloatRepr(t) == DigitsOf(t \div 10) \o <<".", DigitChars[(t % 10) + 1]>>

\* json.dumps(traits) for a trait map: {"k": 1.0, "k2": 2.5}
RECURSIVE DumpsItems(_)
DumpsItems(o) ==
    IF Len(o) = 0 THEN <<>>
    ELSE (IF Len(o) > 1 THEN DumpsItems(SubSeq(o, 1, Len(o) - 1)) \o <<",", " ">> ELSE <<>>)
         \o <<"\"">> \o o[Len(o)].k \o <<"\"", ":", " ">> \o FloatRepr(o[Len(o)].v)

DumpsTraits(traits) == <<"{">> \o DumpsItems(traits) \o <<"}">>

(* json.dumps and the text extraction of call_gemini_api (generator.py) *)

K_candidates == <<"c", "a", "n", "d", "i", "d", "a", "t", "e", "s">>

K_content == <<"c", "o", "n", "t", "e", "n", "t">>

K_output == <<"o", "u", "t", "p", "u", "t">>

K_parts == <<"p", "a", "r", "t", "s">>

K_text == <<"t", "e", "x", "t">>

\* k.lower()
Lower(s) ==
    LET upper ==
          <<"A", "B", "C", "D", "E", "F", "G", "H", "I", "J", "K", "L", "M",
            "N", "O", "P", "Q", "R", "S", "T", "U", "V", "W", "X", "Y", "Z">>
        lower ==
          <<"a", "b", "c", "d", "e", "f", "g", "h", "i", "j", "k", "l", "m",
            "n", "o", "p", "q", "r", "s", "t", "u", "v", "w", "x", "y", "z">>
    IN  [i \in 1..Len(s) |->
            IF \E j \in 1..26 : upper[j] = s[i]
            THEN lower[CHOOSE j \in 1..26 : upper[j] = s[i]]
            ELSE s[i]]

\* the characters of a string as json.dumps writes them, with its escapes
RECURSIVE EscapeText(_)
EscapeText(s) ==
    IF Len(s) = 0 THEN <<>>
    ELSE (CASE Head(s) = "\"" -> <<"\\", "\"">>
            [] Head(s) = "\\" -> <<"\\", "\\">>
            [] Head(s) = "\n" -> <<"\\", "n">>
            [] OTHER -> <<Head(s)>>)
         \o EscapeText(Tail(s))

\* the k decimal digits of n, with leading zeros
RECURSIVE PadDigits(_, _)
PadDigits(n, k) ==
    IF k = 0 THEN <<>>
    ELSE Append(PadDigits(n \div 10, k - 1), DigitChars[(n % 10) + 1])

\* repr of the float m / 10^k, k >= 1: no trailing zero after the first decimal
RECURSIVE ReprFloat(_, _)
ReprFloat(m, k) ==
    IF k > 1 /\ m % 10 = 0 THEN ReprFloat(m \div 10, k - 1)
    ELSE DigitsOf(m \div Pow10(k)) \o <<".">> \o PadDigits(m % Pow10(k), k)

\* json.dumps of a number
DumpsNum(v) ==
    (IF v.m < 0 THEN <<"-">> ELSE <<>>)
    \o (IF v.k = 0 THEN DigitsOf(IF v.m < 0 THEN -v.m ELSE v.m)
                        \o (IF v.int THEN <<>> ELSE <<".", "0">>)
        ELSE ReprFloat(IF v.m < 0 THEN -v.m ELSE v.m, v.k))

\* json.dumps(data), with the default separators ", " and ": "
RECURSIVE json_dumps(_), DumpsMembers(_), DumpsElements(_)
json_dumps(v) ==
    CASE v.t = "lit" -> (CASE v.l = "null" -> W_null
                           [] v.l = "true" -> W_true
                           [] v.l = "false" -> W_false)
      [] v.t = "num" -> DumpsNum(v)
      [] v.t = "str" -> <<"\"">> \o EscapeText(v.s) \o <<"\"">>
      [] v.t = "arr" -> <<"[">> \o DumpsElements(v.a) \o <<"]">>
      [] v.t = "obj" -> <<"{">> \o DumpsMembers(v.o) \o <<"}">>

DumpsMembers(o) ==
    IF Len(o) = 0 THEN <<>>
    ELSE <<"\"">> \o EscapeText(Head(o).k) \o <<"\"", ":", " ">>
         \o json_dumps(Head(o).v)
         \o (IF Len(o) > 1 THEN <<",", " ">> \o DumpsMembers(Tail(o)) ELSE <<>>)

DumpsElements(a) ==
    IF Len(a) = 0 THEN <<>>
    ELSE json_dumps(Head(a))
         \o (IF Len(a) > 1 THEN <<",", " ">> \o DumpsElements(Tail(a)) ELSE <<>>)

\* The items a loop collected, or the fact that it raised
XFail == [ok |-> FALSE, ts |-> <<>>]

XOk(ts) == [ok |-> TRUE, ts |-> ts]

XCat(a, b) == IF a.ok /\ b.ok THEN XOk(a.ts \o b.ts) ELSE XFail

\* the items "for x in v" visits: elements of a list, keys of a dict,
\* characters of a str; TypeError for None, bool and numbers
Iter(v) ==
    CASE v.t = "arr" -> XOk(v.a)
      [] v.t = "obj" -> XOk([i \in 1..Len(v.o) |-> StrV(v.o[i].k)])
      [] v.t = "str" -> XOk([i \in 1..Len(v.s) |-> StrV(<<v.s[i]>>)])
      [] OTHER -> XFail

\* if "text" in part: texts.append(part["text"])
PartText(part) ==
    CASE InTest(part, K_text) = "no" -> XOk(<<>>)
      [] InTest(part, K_text) = "yes" /\ IsDict(part) -> XOk(<<GetKey(part, K_text)>>)
      [] OTHER -> XFail

RECURSIVE PartsTexts(_)
PartsTexts(parts) ==
    IF Len(parts) = 0 THEN XOk(<<>>)
    ELSE XCat(PartText(Head(parts)), PartsTexts(Tail(parts)))

\* for part in block.get("parts", []): ...
BlockTexts(block) ==
    IF ~IsDict(block) THEN XFail
    ELSE The({IF it.ok THEN PartsTexts(it.ts) ELSE XFail :
                 it \in {Iter(DictGet(block, K_parts, EmptyList))}})

RECURSIVE BlocksTexts(_)
BlocksTexts(blocks) ==
    IF Len(blocks) = 0 THEN XOk(<<>>)
    ELSE XCat(BlockTexts(Head(blocks)), BlocksTexts(Tail(blocks)))

\* for item in out.get("content", []): for part in item.get("parts", []): ...
OutTexts(out) ==
    IF ~IsDict(out) THEN XFail
    ELSE The({IF it.ok THEN BlocksTexts(it.ts) ELSE XFail :
                 it \in {Iter(DictGet(out, K_content, EmptyList))}})

RECURSIVE OutsTexts(_)
OutsTexts(outs) ==
    IF Len(outs) = 0 THEN XOk(<<>>)
    ELSE XCat(OutTexts(Head(outs)), OutsTexts(Tail(outs)))

\* "\n".join(texts) for a list of str
RECURSIVE JoinLines(_)
JoinLines(ts) ==
    IF Len(ts) = 0 THEN <<>>
    ELSE IF Len(ts) = 1 THEN ts[1].s
    ELSE ts[1].s \o <<"\n">> \o JoinLines(Tail(ts))

\* What the attempt on one schema comes to: a text to return, nothing
\* (go on), or an exception
XNothing == [st |-> "nothing", text |-> <<>>]

XRaise == [st |-> "raise", text |-> <<>>]

\* if texts: return "\n".join(texts); join raises on an item that is no str
ShapeTexts(r) ==
    IF ~r.ok THEN XRaise
    ELSE IF Len(r.ts) = 0 THEN XNothing
    ELSE IF \A i \in 1..Len(r.ts) : r.ts[i].t = "str" THEN [st |-> "text", text |-> JoinLines(r.ts)]
    ELSE XRaise

\* if "content" in candidate: ...
ContentShape(candidate) ==
    CASE InTest(candidate, K_content) = "no" -> XNothing
      [] InTest(candidate, K_content) = "yes" /\ IsDict(candidate) ->
            The({ShapeTexts(IF it.ok THEN BlocksTexts(it.ts) ELSE XFail) :
                    it \in {Iter(GetKey(candidate, K_content))}})
      [] OTHER -> XRaise

\* if "output" in candidate: ...
OutputShape(candidate) ==
    CASE InTest(candidate, K_output) = "no" -> XNothing
      [] InTest(candidate, K_output) = "yes" /\ IsDict(candidate) ->
            The({ShapeTexts(IF it.ok THEN OutsTexts(it.ts) ELSE XFail) :
                    it \in {Iter(GetKey(candidate, K_output))}})
      [] OTHER -> XRaise

\* if "candidates" in data and data["candidates"]: ... (lines 107-129)
KnownShapes(data) ==
    CASE InTest(data, K_candidates) = "no" -> XNothing
      [] InTest(data, K_candidates) = "yes" /\ IsDict(data) ->
            IF ~Truthy(GetKey(data, K_candidates)) THEN XNothing
            ELSE The({IF c.ok
                      THEN The({IF cs.st = "nothing" THEN OutputShape(c.ts[1]) ELSE cs :
                                   cs \in {ContentShape(c.ts[1])}})
                      ELSE XRaise :
                         \* candidate = data["candidates"][0]
                         c \in {The({CASE v.t = "arr" /\ Len(v.a) > 0 -> XOk(<<v.a[1]>>)
                                       [] v.t = "str" /\ Len(v.s) > 0 ->
                                             XOk(<<StrV(<<v.s[1]>>)>>)
                                       [] OTHER -> XFail :
                                         v \in {GetKey(data, K_candidates)}})}})
      [] OTHER -> XRaise

\* find_texts(obj): the str values under a key "text" in any letter case
RECURSIVE find_texts(_), FindInItems(_), FindInElements(_)
find_texts(obj) ==
    CASE obj.t = "obj" -> FindInItems(obj.o)
      [] obj.t = "arr" -> FindInElements(obj.a)
      [] OTHER -> <<>>

FindInItems(o) ==
    IF Len(o) = 0 THEN <<>>
    ELSE (IF Lower(Head(o).k) = K_text /\ Head(o).v.t = "str"
          THEN <<Head(o).v>> ELSE find_texts(Head(o).v))
         \o FindInItems(Tail(o))

FindInElements(a) ==
    IF Len(a) = 0 THEN <<>>
    ELSE find_texts(Head(a)) \o FindInElements(Tail(a))

\* lines 106-152 of call_gemini_api: the text returned for a decoded body.
\* An exception in the known shapes skips the scan of the whole body (lines
\* 131-147), which otherwise comes before json.dumps(data).
extract_text(data) ==
    The({IF k.st = "text" THEN k.text
         ELSE IF k.st = "raise" THEN json_dumps(data)
         ELSE The({IF Len(f) > 0 THEN JoinLines(f) ELSE json_dumps(data) :
                      f \in {find_texts(data)}}) :
            k \in {KnownShapes(data)}})

(* Responses of the text-generation endpoint *)

\* {"traits": {"Open": 85, "Calm": 40.5}}
TT_valid ==
    <<"{", "\"", "t", "r", "a", "i", "t", "s", "\"", ":", " ", "{", "\"",
      "O", "p", "e", "n", "\"", ":", " ", "8", "5", ",", " ", "\"", "C",
      "a", "l", "m", "\"", ":", " ", "4", "0", ".", "5", "}", "}">>

\* Sure: {"traits": {"Open": "90%", "Calm": 150}} done
TT_wrapped ==
    <<"S", "u", "r", "e", ":", " ", "{", "\"", "t", "r", "a", "i", "t",
      "s", "\"", ":", " ", "{", "\"", "O", "p", "e", "n", "\"", ":", " ",
      "\"", "9", "0", "%", "\"", ",", " ", "\"", "C", "a", "l", "m", "\"",
      ":", " ", "1", "5", "0", "}", "}", " ", "d", "o", "n", "e">>

\* I cannot answer
TT_prose ==
    <<"I", " ", "c", "a", "n", "n", "o", "t", " ", "a", "n", "s", "w", "e",
      "r">>

\* {"mood": 1}
TT_nokey ==
    <<"{", "\"", "m", "o", "o", "d", "\"", ":", " ", "1", "}">>

\*  You are calm.\n
ST_prose ==
    <<" ", "Y", "o", "u", " ", "a", "r", "e", " ", "c", "a", "l", "m", ".",
      "\n">>

\* 1. Do X\n2. Do Y\nKeep going, you're doing great.
VT_numbered ==
    <<"1", ".", " ", "D", "o", " ", "X", "\n", "2", ".", " ", "D", "o",
      " ", "Y", "\n", "K", "e", "e", "p", " ", "g", "o", "i", "n", "g",
      ",", " ", "y", "o", "u", "'", "r", "e", " ", "d", "o", "i", "n", "g",
      " ", "g", "r", "e", "a", "t", ".">>

\* more than SummaryLimit characters of prose
ST_long == [i \in 1..(SummaryLimit + 5) |-> IF i % 7 = 0 THEN " " ELSE "x"]

TraitTexts ==
    {TT_valid, TT_wrapped,
     \* {"traits": {"Open": 55.57}}
     <<"{", "\"", "t", "r", "a", "i", "t", "s", "\"", ":", " ", "{", "\"",
       "O", "p", "e", "n", "\"", ":", " ", "5", "5", ".", "5", "7", "}", "}">>,
     \* {"traits": [1]}
     <<"{", "\"", "t", "r", "a", "i", "t", "s", "\"", ":", " ", "[", "1",
       "]", "}">>,
     \* [1, 2]
     <<"[", "1", ",", " ", "2", "]">>,
     \* the empty text
     <<>>,
     TT_prose,
     \* 42
     <<"4", "2">>, TT_nokey,
     \* "my traits"
     <<"\"", "m", "y", " ", "t", "r", "a", "i", "t", "s", "\"">>}

SummaryTexts == {
     \* {"summary": "Calm and open."}
     <<"{", "\"", "s", "u", "m", "m", "a", "r", "y", "\"", ":", " ", "\"",
       "C", "a", "l", "m", " ", "a", "n", "d", " ", "o", "p", "e", "n", ".",
       "\"", "}">>, ST_prose,
     \* {"summary": 5}
     <<"{", "\"", "s", "u", "m", "m", "a", "r", "y", "\"", ":", " ", "5", "}">>,
     \* the empty text
     <<>>, ST_long}

ValidatorTexts ==
    {
     \* {"recommendations": ["Read", "Rest"], "validating_message": "Good."}
     <<"{", "\"", "r", "e", "c", "o", "m", "m", "e", "n", "d", "a", "t",
       "i", "o", "n", "s", "\"", ":", " ", "[", "\"", "R", "e", "a", "d",
       "\"", ",", " ", "\"", "R", "e", "s", "t", "\"", "]", ",", " ", "\"",
       "v", "a", "l", "i", "d", "a", "t", "i", "n", "g", "_", "m", "e", "s",
       "s", "a", "g", "e", "\"", ":", " ", "\"", "G", "o", "o", "d", ".",
       "\"", "}">>,
     \* {"recommendations": "Read", "validation": "Nice."}
     <<"{", "\"", "r", "e", "c", "o", "m", "m", "e", "n", "d", "a", "t",
       "i", "o", "n", "s", "\"", ":", " ", "\"", "R", "e", "a", "d", "\"",
       ",", " ", "\"", "v", "a", "l", "i", "d", "a", "t", "i", "o", "n",
       "\"", ":", " ", "\"", "N", "i", "c", "e", ".", "\"", "}">>,
     \* {"recommendations": [], "validating_message": "", "validation": "Alt"}
     <<"{", "\"", "r", "e", "c", "o", "m", "m", "e", "n", "d", "a", "t",
       "i", "o", "n", "s", "\"", ":", " ", "[", "]", ",", " ", "\"", "v",
       "a", "l", "i", "d", "a", "t", "i", "n", "g", "_", "m", "e", "s", "s",
       "a", "g", "e", "\"", ":", " ", "\"", "\"", ",", " ", "\"", "v", "a",
       "l", "i", "d", "a", "t", "i", "o", "n", "\"", ":", " ", "\"", "A",
       "l", "t", "\"", "}">>,
     \* {}
     <<"{", "}">>, VT_numbered,
     \* Try a walk\n\nSleep more\nCall a friend\nYou can do it
     <<"T", "r", "y", " ", "a", " ", "w", "a", "l", "k", "\n", "\n", "S",
       "l", "e", "e", "p", " ", "m", "o", "r", "e", "\n", "C", "a", "l",
       "l", " ", "a", " ", "f", "r", "i", "e", "n", "d", "\n", "Y", "o",
       "u", " ", "c", "a", "n", " ", "d", "o", " ", "i", "t">>,
     \* the empty text
     <<>>,
     \* [1, 2]
     <<"[", "1", ",", " ", "2", "]">>}

\* what the diagnostic re-calls are answered with
RawTraitTexts == {TT_valid}

RawSummaryTexts == {ST_prose}

RawValidatorTexts == {VT_numbered}

\* a response body that is not JSON: <html>
BT_html ==
    <<"<", "h", "t", "m", "l", ">">>

\* quota exceeded
ErrorBody ==
    <<"q", "u", "o", "t", "a", " ", "e", "x", "c", "e", "e", "d", "e", "d">>

\* response bodies of the endpoint, as JSON text
BodyTexts ==
    {
     \* {"candidates": [{"content": [{"parts": [{"text": "hi"}, {"text": "yo"}]}]}]}
     <<"{", "\"", "c", "a", "n", "d", "i", "d", "a", "t", "e", "s", "\"",
       ":", " ", "[", "{", "\"", "c", "o", "n", "t", "e", "n", "t", "\"",
       ":", " ", "[", "{", "\"", "p", "a", "r", "t", "s", "\"", ":", " ",
       "[", "{", "\"", "t", "e", "x", "t", "\"", ":", " ", "\"", "h", "i",
       "\"", "}", ",", " ", "{", "\"", "t", "e", "x", "t", "\"", ":", " ",
       "\"", "y", "o", "\"", "}", "]", "}", "]", "}", "]", "}">>,
     \* {"candidates": [{"content": {"parts": [{"text": "hi"}], "role": "model"}}]}
     <<"{", "\"", "c", "a", "n", "d", "i", "d", "a", "t", "e", "s", "\"",
       ":", " ", "[", "{", "\"", "c", "o", "n", "t", "e", "n", "t", "\"",
       ":", " ", "{", "\"", "p", "a", "r", "t", "s", "\"", ":", " ", "[",
       "{", "\"", "t", "e", "x", "t", "\"", ":", " ", "\"", "h", "i", "\"",
       "}", "]", ",", " ", "\"", "r", "o", "l", "e", "\"", ":", " ", "\"",
       "m", "o", "d", "e", "l", "\"", "}", "}", "]", "}">>,
     \* {"candidates": [{"output": [{"content": [{"parts": [{"text": "old"}]}]}]}]}
     <<"{", "\"", "c", "a", "n", "d", "i", "d", "a", "t", "e", "s", "\"",
       ":", " ", "[", "{", "\"", "o", "u", "t", "p", "u", "t", "\"", ":",
       " ", "[", "{", "\"", "c", "o", "n", "t", "e", "n", "t", "\"", ":",
       " ", "[", "{", "\"", "p", "a", "r", "t", "s", "\"", ":", " ", "[",
       "{", "\"", "t", "e", "x", "t", "\"", ":", " ", "\"", "o", "l", "d",
       "\"", "}", "]", "}", "]", "}", "]", "}", "]", "}">>,
     \* {"result": {"Text": "deep"}, "items": [{"text": "more"}]}
     <<"{", "\"", "r", "e", "s", "u", "l", "t", "\"", ":", " ", "{", "\"",
       "T", "e", "x", "t", "\"", ":", " ", "\"", "d", "e", "e", "p", "\"",
       "}", ",", " ", "\"", "i", "t", "e", "m", "s", "\"", ":", " ", "[",
       "{", "\"", "t", "e", "x", "t", "\"", ":", " ", "\"", "m", "o", "r",
       "e", "\"", "}", "]", "}">>,
     \* {"candidates": [], "usage": 3}
     <<"{", "\"", "c", "a", "n", "d", "i", "d", "a", "t", "e", "s", "\"",
       ":", " ", "[", "]", ",", " ", "\"", "u", "s", "a", "g", "e", "\"",
       ":", " ", "3", "}">>,
     \* {"candidates": [{"content": [{"parts": []}]}], "text": "top"}
     <<"{", "\"", "c", "a", "n", "d", "i", "d", "a", "t", "e", "s", "\"",
       ":", " ", "[", "{", "\"", "c", "o", "n", "t", "e", "n", "t", "\"",
       ":", " ", "[", "{", "\"", "p", "a", "r", "t", "s", "\"", ":", " ",
       "[", "]", "}", "]", "}", "]", ",", " ", "\"", "t", "e", "x", "t",
       "\"", ":", " ", "\"", "t", "o", "p", "\"", "}">>,
     \* {"candidates": [{"content": [{"parts": [{"text": 5}]}]}], "note": {"text": "n"}}
     <<"{", "\"", "c", "a", "n", "d", "i", "d", "a", "t", "e", "s", "\"",
       ":", " ", "[", "{", "\"", "c", "o", "n", "t", "e", "n", "t", "\"",
       ":", " ", "[", "{", "\"", "p", "a", "r", "t", "s", "\"", ":", " ",
       "[", "{", "\"", "t", "e", "x", "t", "\"", ":", " ", "5", "}", "]",
       "}", "]", "}", "]", ",", " ", "\"", "n", "o", "t", "e", "\"", ":",
       " ", "{", "\"", "t", "e", "x", "t", "\"", ":", " ", "\"", "n", "\"",
       "}", "}">>,
     \* [{"text": "a"}, {"text": "b"}]
     <<"[", "{", "\"", "t", "e", "x", "t", "\"", ":", " ", "\"", "a", "\"",
       "}", ",", " ", "{", "\"", "t", "e", "x", "t", "\"", ":", " ", "\"",
       "b", "\"", "}", "]">>,
     \* {"candidates": "x", "text": "t"}
     <<"{", "\"", "c", "a", "n", "d", "i", "d", "a", "t", "e", "s", "\"",
       ":", " ", "\"", "x", "\"", ",", " ", "\"", "t", "e", "x", "t", "\"",
       ":", " ", "\"", "t", "\"", "}">>,
     \* {"candidates": [{"content": ["parts"]}], "text": "t"}
     <<"{", "\"", "c", "a", "n", "d", "i", "d", "a", "t", "e", "s", "\"",
       ":", " ", "[", "{", "\"", "c", "o", "n", "t", "e", "n", "t", "\"",
       ":", " ", "[", "\"", "p", "a", "r", "t", "s", "\"", "]", "}", "]",
       ",", " ", "\"", "t", "e", "x", "t", "\"", ":", " ", "\"", "t", "\"",
       "}">>,
     \* {"a": [1, -2, 1.50, 2.0, true, null, "q"], "b": {}}
     <<"{", "\"", "a", "\"", ":", " ", "[", "1", ",", " ", "-", "2", ",",
       " ", "1", ".", "5", "0", ",", " ", "2", ".", "0", ",", " ", "t", "r",
       "u", "e", ",", " ", "n", "u", "l", "l", ",", " ", "\"", "q", "\"",
       "]", ",", " ", "\"", "b", "\"", ":", " ", "{", "}", "}">>,
     \* {"candidates": 7, "text": "t"}
     <<"{", "\"", "c", "a", "n", "d", "i", "d", "a", "t", "e", "s", "\"",
       ":", " ", "7", ",", " ", "\"", "t", "e", "x", "t", "\"", ":", " ",
       "\"", "t", "\"", "}">>,
     \* {"candidates": [{"content": [], "output": [{"content": [{"parts": [{"text": "o"}]}]}]}]}
     <<"{", "\"", "c", "a", "n", "d", "i", "d", "a", "t", "e", "s", "\"",
       ":", " ", "[", "{", "\"", "c", "o", "n", "t", "e", "n", "t", "\"",
       ":", " ", "[", "]", ",", " ", "\"", "o", "u", "t", "p", "u", "t",
       "\"", ":", " ", "[", "{", "\"", "c", "o", "n", "t", "e", "n", "t",
       "\"", ":", " ", "[", "{", "\"", "p", "a", "r", "t", "s", "\"", ":",
       " ", "[", "{", "\"", "t", "e", "x", "t", "\"", ":", " ", "\"", "o",
       "\"", "}", "]", "}", "]", "}", "]", "}", "]", "}">>,
     BT_html}

\* the decoded body in the schema of content blocks with parts, holding text
GeminiData(text) ==
    ObjV(<<[k |-> K_candidates,
            v |-> ArrV(<<ObjV(<<[k |-> K_content,
                                 v |-> ArrV(<<ObjV(<<[k |-> K_parts,
                                                      v |-> ArrV(<<ObjV(<<[k |-> K_text, v |-> StrV(text)]>>)>>)]>>)>>)]>>)>>)]>>)

\* the answers app.py passes: five stripped strings, not all empty
AnswerInputs ==
    {<<"I like reading", "", "", "", "">>,
     <<"hiking", "kind, calm, shy", "deadlines", "moved abroad", "patient / late">>}

\* HTTP status codes the endpoint answers with
Statuses == {200, 201, 500}

\* the installations a run is checked in: without crewai (with and without a
\* credential), and with crewai and no credential, where a text can only
\* come from crewai and the HTTP fallback fails
Environments ==
    {[crewai |-> FALSE, key |-> TRUE],
     [crewai |-> FALSE, key |-> FALSE],
     [crewai |-> TRUE, key |-> FALSE]}

(* State *)

VARIABLES
    pc,            \* where run_multiagent_personality_pipeline is
    answers,       \* its argument
    haveCrewai,    \* HAVE_CREWAI
    apiKey,        \* whether load_gemini_config resolves an api_key
    calls,         \* history: the crew_generate_with_agent calls, in order
    replies,       \* history: what each call returned or raised
    httpRequests,  \* history: number of requests.post issued
    traits,        \* local of the orchestrator
    summary,       \* local of the orchestrator
    validator_out, \* local of the orchestrator
    result,        \* the dictionary being composed and returned
    error,         \* the exception that left the pipeline, "none" if none
    fn,            \* the function applied on its own, "none" in a pipeline run
    arg,           \* its argument
    ret            \* what it returned, once applied

vars ==
    <<pc, answers, haveCrewai, apiKey, calls, replies, httpRequests, traits,
      summary, validator_out, result, error, fn, arg, ret>>

fnvars == <<fn, arg, ret>>

NotApplied == [done |-> FALSE]

Applied(v) == [done |-> TRUE, v |-> v]

\* the outcome of a call: the text returned, or the exception raised, with
\* the status and body its message carries and the number of requests sent
Returned(text, reqs) ==
    [ok |-> TRUE, text |-> text, err |-> "none", status |-> 200, body |-> <<>>,
     reqs |-> reqs]

Raised(e, status, reqs) ==
    [ok |-> FALSE, text |-> <<>>, err |-> e, status |-> status, body |-> <<>>,
     reqs |-> reqs]

\* mutant: every 2xx status counts as success
StatusOk_Any2xx(status) == status \in 200..299

\* response.status_code != 200, negated
StatusOk(status) == status = 200

\* lines 98-152 of call_gemini_api, for a response with the status, the body
\* text and what response.json() comes to:
\*   raise RuntimeError(f"Gemini API Error {response.status_code}: {response.text}")
\*   data = response.json(), which raises outside the try block
\*   the extraction
handle_response(status, body, decoded) ==
    IF ~StatusOk(status)
    THEN [Raised("RemoteCallError", status, 1) EXCEPT !.body = body]
    ELSE IF decoded.ok
    THEN [Returned(extract_text(decoded.v), 1) EXCEPT !.status = status]
    ELSE Raised("JSONDecodeError", status, 1)

\* the responses of the endpoint: an error status with an error body, or
\* status 200 with a body holding a generated text or with a body that is not
\* JSON.  (The body text of a generated response is not kept.)
Responses(texts) ==
    {[status |-> st, body |-> ErrorBody, decoded |-> JsonLoads(ErrorBody)] :
        st \in Statuses \ {200}}
    \cup {[status |-> 200, body |-> <<>>, decoded |-> [ok |-> TRUE, v |-> GeminiData(t)]] :
             t \in texts}
    \cup {[status |-> 200, body |-> BT_html, decoded |-> JsonLoads(BT_html)]}

\* mutant: the request is sent before the key is looked at
call_gemini_api_KeyCheckedLate(texts) ==
    IF ~apiKey THEN {Raised("ConfigurationError", 0, 1)}
    ELSE {Raised("RequestException", 0, 1)}
         \cup {handle_response(r.status, r.body, r.decoded) : r \in Responses(texts)}

\* call_gemini_api: the outcomes of one invocation, given the texts the
\* endpoint may generate
call_gemini_api(texts) ==
    IF ~apiKey THEN {Raised("ConfigurationError", 0, 0)}
    ELSE {Raised("RequestException", 0, 1)}
         \cup {handle_response(r.status, r.body, r.decoded) : r \in Responses(texts)}

\* crew_generate_with_agent: the crewai attempt returns a text, or it is
\* absent or fails and the call falls back to call_gemini_api
crew_generate_with_agent(texts) ==
    (IF haveCrewai THEN {Returned(t, 0) : t \in texts} ELSE {})
    \cup call_gemini_api(texts)

NoResult == <<>>

Init ==
    /\ pc = "trait"
    /\ answers \in AnswerInputs
    /\ \E env \in Environments :
          /\ haveCrewai = env.crewai
          /\ apiKey = env.key
    /\ calls = <<>>
    /\ replies = <<>>
    /\ httpRequests = 0
    /\ traits = <<>>
    /\ summary = NoneV
    /\ validator_out = ValidatorOut(EmptyList, EmptyStr)
    /\ result = NoResult
    /\ error = "none"
    /\ fn = "none"
    /\ arg = NoneV
    /\ ret = NotApplied

\* the bookkeeping of one crew_generate_with_agent(name, prompt) with outcome o
Issue(name, prompt, o) ==
    /\ calls' = Append(calls, [name |-> name, prompt |-> prompt])
    /\ replies' = Append(replies, o)
    /\ httpRequests' = httpRequests + o.reqs

Raise(e) ==
    /\ pc' = "raised"
    /\ error' = e

TraitPrompt == Format(TRAIT_PROMPT, answers, <<>>)

StricterPrompt == Append(TRAIT_PROMPT, STRICT_SUFFIX)

\* mutant: the summary prompt is built before the traits are known
SummaryPrompt_NoTraits == Format(SUMMARY_PROMPT, answers, DumpsTraits(<<>>))

SummaryPrompt == Format(SUMMARY_PROMPT, answers, DumpsTraits(traits))

ValidatorPrompt == Format(VALIDATOR_PROMPT, answers, DumpsTraits(traits))

\* mutant: a failed primary call is followed by the retry call
TraitCall_RetriesOnError ==
    /\ pc = "trait"
    /\ \E o \in crew_generate_with_agent(TraitTexts) :
          /\ Issue("trait_agent", TraitPrompt, o)
          /\ IF ~o.ok
             THEN pc' = "trait_retry" /\ UNCHANGED <<traits, error>>
             ELSE \E r \in trait_primary(o.text) :
                     CASE r.st = "ok" ->
                            traits' = r.traits /\ pc' = "summary" /\ UNCHANGED error
                       [] r.st = "retry" ->
                            pc' = "trait_retry" /\ UNCHANGED <<traits, error>>
                       [] OTHER -> Raise(r.err) /\ UNCHANGED traits
    /\ UNCHANGED <<fnvars, answers, haveCrewai, apiKey, summary, validator_out, result>>

\* run_trait_agent: the primary call and the handling of its response
TraitCall ==
    /\ pc = "trait"
    /\ \E o \in crew_generate_with_agent(TraitTexts) :
          /\ Issue("trait_agent", TraitPrompt, o)
          /\ IF ~o.ok
             THEN Raise(o.err) /\ UNCHANGED traits
             ELSE \E r \in trait_primary(o.text) :
                     CASE r.st = "ok" ->
                            traits' = r.traits /\ pc' = "summary" /\ UNCHANGED error
                       [] r.st = "retry" ->
                            pc' = "trait_retry" /\ UNCHANGED <<traits, error>>
                       [] OTHER -> Raise(r.err) /\ UNCHANGED traits
    /\ UNCHANGED <<fnvars, answers, haveCrewai, apiKey, summary, validator_out, result>>

\* mutant: a failure of the retry call is caught by the stage
TraitRetryCall_Swallows ==
    /\ pc = "trait_retry"
    /\ \E o \in crew_generate_with_agent(TraitTexts) :
          /\ Issue("trait_agent", StricterPrompt, o)
          /\ IF ~o.ok
             THEN traits' = <<>> /\ pc' = "summary" /\ UNCHANGED error
             ELSE \E r \in trait_retry(o.text) :
                     IF r.st = "ok"
                     THEN traits' = r.traits /\ pc' = "summary" /\ UNCHANGED error
                     ELSE Raise(r.err) /\ UNCHANGED traits
    /\ UNCHANGED <<fnvars, answers, haveCrewai, apiKey, summary, validator_out, result>>

\* mutant: a retry response without traits is followed by a second retry
TraitRetryCall_RetriesTwice ==
    /\ pc = "trait_retry"
    /\ \E o \in crew_generate_with_agent(TraitTexts) :
          /\ Issue("trait_agent", StricterPrompt, o)
          /\ IF ~o.ok
             THEN Raise(o.err) /\ UNCHANGED traits
             ELSE \E r \in trait_retry(o.text) :
                     IF r.st = "ok"
                     THEN /\ traits' = r.traits
                          /\ pc' = IF Len(r.traits) = 0 /\ Len(calls) = 1
                                   THEN "trait_retry" ELSE "summary"
                          /\ UNCHANGED error
                     ELSE Raise(r.err) /\ UNCHANGED traits
    /\ UNCHANGED <<fnvars, answers, haveCrewai, apiKey, summary, validator_out, result>>

\* run_trait_agent: the call with the stricter prompt
TraitRetryCall ==
    /\ pc = "trait_retry"
    /\ \E o \in crew_generate_with_agent(TraitTexts) :
          /\ Issue("trait_agent", StricterPrompt, o)
          /\ IF ~o.ok
             THEN Raise(o.err) /\ UNCHANGED traits
             ELSE \E r \in trait_retry(o.text) :
                     IF r.st = "ok"
                     THEN traits' = r.traits /\ pc' = "summary" /\ UNCHANGED error
                     ELSE Raise(r.err) /\ UNCHANGED traits
    /\ UNCHANGED <<fnvars, answers, haveCrewai, apiKey, summary, validator_out, result>>

\* run_summary_agent
SummaryCall ==
    /\ pc = "summary"
    /\ \E o \in crew_generate_with_agent(SummaryTexts) :
          /\ Issue("summary_agent", SummaryPrompt, o)
          /\ IF ~o.ok
             THEN Raise(o.err) /\ UNCHANGED summary
             ELSE /\ summary' = run_summary_agent(o.text)
                  /\ pc' = "validator"
                  /\ UNCHANGED error
    /\ UNCHANGED <<fnvars, answers, haveCrewai, apiKey, traits, validator_out, result>>

\* result = {...} of the orchestrator
Compose(s, t, vo) ==
    [summary |-> s,
     traits |-> t,
     recommendations |-> vo.recommendations,
     validating_message |-> vo.validating_message,
     raw |-> [trait_agent |-> NoneV, summary_agent |-> NoneV, validator_agent |-> NoneV]]

\* run_validator_agent, then the composition of the result
ValidatorCall ==
    /\ pc = "validator"
    /\ \E o \in crew_generate_with_agent(ValidatorTexts) :
          /\ Issue("validator_agent", ValidatorPrompt, o)
          /\ IF ~o.ok
             THEN Raise(o.err) /\ UNCHANGED <<validator_out, result>>
             ELSE \E vo \in {run_validator_agent(o.text)} :
                     IF vo.st = "ok"
                     THEN /\ validator_out' = vo
                          /\ result' = Compose(summary, traits, vo)
                          /\ pc' = "raw_trait"
                          /\ UNCHANGED error
                     ELSE Raise(vo.err) /\ UNCHANGED <<validator_out, result>>
    /\ UNCHANGED <<fnvars, answers, haveCrewai, apiKey, traits, summary>>

\* mutant: a failing diagnostic re-call is not caught
RawTraitCall_Raises ==
    /\ pc = "raw_trait"
    /\ \E o \in crew_generate_with_agent(RawTraitTexts) :
          /\ Issue("trait_agent_raw", TraitPrompt, o)
          /\ IF o.ok
             THEN /\ result' = [result EXCEPT !.raw.trait_agent = StrV(o.text)]
                  /\ pc' = "raw_summary"
                  /\ UNCHANGED error
             ELSE /\ Raise(o.err)
                  /\ UNCHANGED result
    /\ UNCHANGED <<fnvars, answers, haveCrewai, apiKey, traits, summary, validator_out>>

\* the diagnostic re-calls inside try / except Exception: pass
RawTraitCall ==
    /\ pc = "raw_trait"
    /\ \E o \in crew_generate_with_agent(RawTraitTexts) :
          /\ Issue("trait_agent_raw", TraitPrompt, o)
          /\ IF o.ok
             THEN /\ result' = [result EXCEPT !.raw.trait_agent = StrV(o.text)]
                  /\ pc' = "raw_summary"
             ELSE /\ pc' = "returned"
                  /\ UNCHANGED result
    /\ UNCHANGED <<fnvars, answers, haveCrewai, apiKey, traits, summary, validator_out, error>>

\* mutant: each diagnostic re-call has a try of its own
RawSummaryCall_Continues ==
    /\ pc = "raw_summary"
    /\ \E o \in crew_generate_with_agent(RawSummaryTexts) :
          /\ Issue("summary_agent_raw", SummaryPrompt, o)
          /\ IF o.ok
             THEN result' = [result EXCEPT !.raw.summary_agent = StrV(o.text)]
             ELSE UNCHANGED result
          /\ pc' = "raw_validator"
    /\ UNCHANGED <<fnvars, answers, haveCrewai, apiKey, traits, summary, validator_out, error>>

RawSummaryCall ==
    /\ pc = "raw_summary"
    /\ \E o \in crew_generate_with_agent(RawSummaryTexts) :
          /\ Issue("summary_agent_raw", SummaryPrompt, o)
          /\ IF o.ok
             THEN /\ result' = [result EXCEPT !.raw.summary_agent = StrV(o.text)]
                  /\ pc' = "raw_validator"
             ELSE /\ pc' = "returned"
                  /\ UNCHANGED result
    /\ UNCHANGED <<fnvars, answers, haveCrewai, apiKey, traits, summary, validator_out, error>>

RawValidatorCall ==
    /\ pc = "raw_validator"
    /\ \E o \in crew_generate_with_agent(RawValidatorTexts) :
          /\ Issue("validator_agent_raw", ValidatorPrompt, o)
          /\ IF o.ok
             THEN result' = [result EXCEPT !.raw.validator_agent = StrV(o.text)]
             ELSE UNCHANGED result
          /\ pc' = "returned"
    /\ UNCHANGED <<fnvars, answers, haveCrewai, apiKey, traits, summary, validator_out, error>>

Next ==
    \/ TraitCall
    \/ TraitRetryCall
    \/ SummaryCall
    \/ ValidatorCall
    \/ RawTraitCall
    \/ RawSummaryCall
    \/ RawValidatorCall

Spec == Init /\ [][Next]_vars

\* The orchestrator is sequential code and every call it makes returns or
\* raises (requests.post has timeout=30): a step that can be taken is taken.
FairSpec == Spec /\ WF_vars(Next)

(* The functions applied on their own *)

MaxParseLen == 4

\* every text of at most MaxParseLen characters that matter to the parse, and
\* the response texts of the stages
ParseInputs ==
    UNION {[1..n -> {"{", "}", "\"", "a", ":", "1", " "}] : n \in 0..MaxParseLen}
    \cup TraitTexts \cup SummaryTexts \cup ValidatorTexts

\* the values a response may give a trait
\* 85
SV_int ==
    <<"8", "5">>

\* 150
SV_high ==
    <<"1", "5", "0">>

\* -5
SV_negative ==
    <<"-", "5">>

\* 40.5
SV_float ==
    <<"4", "0", ".", "5">>

\* "70"
SV_numstr ==
    <<"\"", "7", "0", "\"">>

\* "85%"
SV_percent ==
    <<"\"", "8", "5", "%", "\"">>

\* "120%"
SV_percent_high ==
    <<"\"", "1", "2", "0", "%", "\"">>

\* " 60 "
SV_padded ==
    <<"\"", " ", "6", "0", " ", "\"">>

ScoreValues ==
    {SV_int, SV_high, SV_negative, SV_float,
     \* 55.57
     <<"5", "5", ".", "5", "7">>, SV_numstr, SV_percent,
     SV_percent_high, SV_padded,
     \* "abc"
     <<"\"", "a", "b", "c", "\"">>,
     \* null
     <<"n", "u", "l", "l">>,
     \* true
     <<"t", "r", "u", "e">>,
     \* [1]
     <<"[", "1", "]">>,
     \* ""
     <<"\"", "\"">>}

\* a response whose one trait has the value written vt: {"traits": {"T": vt}}
ScoreText(vt) ==
    <<"{", "\"", "t", "r", "a", "i", "t", "s", "\"", ":", " ", "{", "\"",
      "T", "\"", ":", " ">> \o vt \o <<"}", "}">>

\* validator responses for the line heuristic
HeuristicInputs ==
    ValidatorTexts \cup {
     \* - 3 walks a week\n2. 10 minutes of rest\nYou can do it
     <<"-", " ", "3", " ", "w", "a", "l", "k", "s", " ", "a", " ", "w", "e",
       "e", "k", "\n", "2", ".", " ", "1", "0", " ", "m", "i", "n", "u",
       "t", "e", "s", " ", "o", "f", " ", "r", "e", "s", "t", "\n", "Y",
       "o", "u", " ", "c", "a", "n", " ", "d", "o", " ", "i", "t">>,
     \* - Read\n-  Rest \nBe kind.
     <<"-", " ", "R", "e", "a", "d", "\n", "-", " ", " ", "R", "e", "s",
       "t", " ", "\n", "B", "e", " ", "k", "i", "n", "d", ".">>,
     \*  \n\n  
     <<" ", "\n", "\n", " ", " ">>, TT_nokey, TT_prose}

\* the arguments a function is applied to; for call_gemini_api, the responses
\* of every status with every body
FnInputs(f) ==
    CASE f = "safe_json_parse" -> ParseInputs
      [] f \in {"trait_primary", "trait_retry"} ->
            {ScoreText(vt) : vt \in ScoreValues} \cup TraitTexts
      [] f = "run_validator_agent" -> HeuristicInputs
      [] f = "call_gemini_api" ->
            [status : Statuses, body : BodyTexts \cup {ErrorBody}]

pipevars ==
    <<pc, answers, haveCrewai, apiKey, calls, replies, httpRequests, traits,
      summary, validator_out, result, error>>

\* no pipeline run; one function is about to be called with one argument
FnInit ==
    /\ pc = "idle"
    /\ answers = <<>>
    /\ haveCrewai = FALSE
    /\ apiKey = FALSE
    /\ calls = <<>>
    /\ replies = <<>>
    /\ httpRequests = 0
    /\ traits = <<>>
    /\ summary = NoneV
    /\ validator_out = ValidatorOut(EmptyList, EmptyStr)
    /\ result = NoResult
    /\ error = "none"
    /\ fn \in {"safe_json_parse", "trait_primary", "trait_retry",
                "run_validator_agent", "call_gemini_api"}
    /\ arg \in FnInputs(fn)
    /\ ret = NotApplied

\* safe_json_parse(text)
Apply_safe_json_parse ==
    /\ fn = "safe_json_parse"
    /\ ~ret.done
    /\ ret' = Applied(safe_json_parse(arg))
    /\ UNCHANGED <<fn, arg, pipevars>>

\* run_trait_agent from the primary response on
Apply_trait_primary ==
    /\ fn = "trait_primary"
    /\ ~ret.done
    /\ \E r \in trait_primary(arg) : ret' = Applied(r)
    /\ UNCHANGED <<fn, arg, pipevars>>

\* run_trait_agent from the retry response on
Apply_trait_retry ==
    /\ fn = "trait_retry"
    /\ ~ret.done
    /\ \E r \in trait_retry(arg) : ret' = Applied(r)
    /\ UNCHANGED <<fn, arg, pipevars>>

\* run_validator_agent from the response on
Apply_run_validator_agent ==
    /\ fn = "run_validator_agent"
    /\ ~ret.done
    /\ ret' = Applied(run_validator_agent(arg))
    /\ UNCHANGED <<fn, arg, pipevars>>

\* call_gemini_api from the response of requests.post on
Apply_call_gemini_api ==
    /\ fn = "call_gemini_api"
    /\ ~ret.done
    /\ ret' = Applied(handle_response(arg.status, arg.body, JsonLoads(arg.body)))
    /\ UNCHANGED <<fn, arg, pipevars>>

FnNext ==
    \/ Apply_safe_json_parse
    \/ Apply_trait_primary
    \/ Apply_trait_retry
    \/ Apply_run_validator_agent
    \/ Apply_call_gemini_api

FnSpec == FnInit /\ [][FnNext]_vars

(* Properties *)

ResultKeys == {"summary", "traits", "recommendations", "validating_message", "raw"}

\* the positions in the call history of the calls made under a name
CallsNamed(name) == {i \in 1..Len(calls) : calls[i].name = name}

DiagNames == {"trait_agent_raw", "summary_agent_raw", "validator_agent_raw"}

DiagPcs == {"raw_trait", "raw_summary", "raw_validator"}

\* the primary pass is over and the result dictionary exists
Composed == pc \in DiagPcs \cup {"returned"}

AllRepliesOk == \A i \in 1..Len(replies) : replies[i].ok

\* the text a call under the name was answered with (for a name called once)
ReplyOf(name) == replies[CHOOSE i \in CallsNamed(name) : TRUE]

\* C1: in every run in which no remote call fails, whatever the responses
\* contain, the pipeline does not raise, and what it returns has all of
\* summary, traits, recommendations, validating_message and raw.
C1_AlwaysFullyPopulated ==
    /\ (pc = "raised" => ~AllRepliesOk)
    /\ (pc = "returned" => DOMAIN result = ResultKeys)

\* the order of the stages in a run
StageRank(name) ==
    CASE name = "trait_agent" -> 1
      [] name = "summary_agent" -> 2
      [] name = "validator_agent" -> 3
      [] name = "trait_agent_raw" -> 4
      [] name = "summary_agent_raw" -> 5
      [] name = "validator_agent_raw" -> 6

\* the trait maps the trait stage can have returned, read off the responses
\* to its calls
TraitStageOutputs ==
    IF Len(replies) = 0 \/ ~replies[1].ok THEN {}
    ELSE LET p == trait_primary(replies[1].text) IN
         IF \E r \in p : r.st = "ok" THEN {r.traits : r \in p}
         ELSE IF Len(replies) >= 2 /\ calls[2].name = "trait_agent" /\ replies[2].ok
              THEN {r.traits : r \in {x \in trait_retry(replies[2].text) : x.st = "ok"}}
              ELSE {}

\* the trait map a decoded traits_json denotes: scores in tenths
JsonTraits(v) ==
    [i \in 1..Len(v.o) |->
        [k |-> v.o[i].k, v |-> v.o[i].v.m * Pow10(1 - v.o[i].v.k)]]

\* the traits_json a prompt embeds
EmbeddedJson(prompt) ==
    prompt[CHOOSE i \in 1..Len(prompt) : prompt[i].kind = "traits_json"].json

\* C2: the calls of a run are issued stage after stage (trait calls, summary
\* call, validator call, diagnostic re-calls), a stage is called only once
\* the stage before it has been called and has produced its output, and
\* the traits embedded in the summary and validator prompts are the map the
\* trait stage of the run returned.
C2_StagesInOrder ==
    LET outs == TraitStageOutputs IN
    /\ Len(calls) = Len(replies)
    /\ Len(calls) > 0 => StageRank(calls[1].name) = 1
    /\ \A i \in 1..(Len(calls) - 1) :
          /\ StageRank(calls[i + 1].name) >= StageRank(calls[i].name)
          /\ StageRank(calls[i + 1].name) <= StageRank(calls[i].name) + 1
          /\ replies[i].ok
    /\ \A i \in 1..Len(calls) :
          /\ StageRank(calls[i].name) >= 2 => traits \in outs
          /\ StageRank(calls[i].name) \in {2, 3, 5, 6} =>
                /\ \E j \in 1..Len(calls[i].prompt) :
                      calls[i].prompt[j].kind = "traits_json"
                /\ LET js == JsonLoads(EmbeddedJson(calls[i].prompt)) IN
                   js.ok /\ IsDict(js.v) /\ JsonTraits(js.v) = traits

\* a full run with a retry, whose trait map is not empty
C2_Witness ==
    /\ pc = "returned"
    /\ Len(calls) = 7
    /\ Len(traits) = 2
    /\ \A n \in DiagNames : CallsNamed(n) # {}

\* a response text that is valid JSON, an object, with all of the keys
ValidJsonWith(text, keys) ==
    LET j == JsonLoads(text) IN
    j.ok /\ IsDict(j.v) /\ \A k \in keys : HasKey(j.v, k)

\* the value a valid JSON object response holds under a key
FieldOf(text, key) == GetKey(JsonLoads(text).v, key)

\* a decoded score that is a number within [0, 100]
InRange(v) == v.t = "num" /\ v.m >= 0 /\ v.m <= 100 * Pow10(v.k)

\* a decoded number with at most one decimal place
OneDecimal(v) == v.k <= 1 \/ v.m % Pow10(v.k - 1) = 0

\* a trait map (scores in tenths) equal, as a Python dict, to a decoded object
SameTraits(t, tv) ==
    /\ IsDict(tv)
    /\ Len(t) = Len(tv.o)
    /\ \A i \in 1..Len(t) :
          /\ t[i].k = tv.o[i].k
          /\ tv.o[i].v.t = "num"
          /\ tv.o[i].v.m * 10 = t[i].v * Pow10(tv.o[i].v.k)

\* the three primary calls were each answered with valid JSON holding the
\* stage's expected key(s), the trait scores being numbers within [0, 100]
PrimaryResponsesValid ==
    /\ CallsNamed("validator_agent") # {}
    /\ replies[1].ok /\ ReplyOf("summary_agent").ok /\ ReplyOf("validator_agent").ok
    /\ ValidJsonWith(replies[1].text, {K_traits})
    /\ LET tv == FieldOf(replies[1].text, K_traits) IN
       IsDict(tv) /\ \A i \in 1..Len(tv.o) : InRange(tv.o[i].v)
    /\ ValidJsonWith(ReplyOf("summary_agent").text, {K_summary})
    /\ ValidJsonWith(ReplyOf("validator_agent").text,
                     {K_recommendations, K_validating_message})

\* ... and the values have the expected shape: scores with at most one
\* decimal place, a list of recommendations, a non-empty validating message
PrimaryResponsesWellShaped ==
    /\ PrimaryResponsesValid
    /\ LET tv == FieldOf(replies[1].text, K_traits) IN
       \A i \in 1..Len(tv.o) : OneDecimal(tv.o[i].v)
    /\ FieldOf(ReplyOf("validator_agent").text, K_recommendations).t = "arr"
    /\ LET vm == FieldOf(ReplyOf("validator_agent").text, K_validating_message) IN
       vm.t = "str" /\ Len(vm.s) > 0

\* the result carries the fields of the three responses, and no retry was made
ResultEqualsResponses ==
    /\ Composed
    /\ result.summary = FieldOf(ReplyOf("summary_agent").text, K_summary)
    /\ SameTraits(result.traits, FieldOf(replies[1].text, K_traits))
    /\ result.recommendations =
          FieldOf(ReplyOf("validator_agent").text, K_recommendations)
    /\ result.validating_message =
          FieldOf(ReplyOf("validator_agent").text, K_validating_message)
    /\ Cardinality(CallsNamed("trait_agent")) = 1
    /\ Cardinality(CallsNamed("validator_agent")) = 1

\* C3 as stated: if each primary prompt is answered with valid JSON holding
\* the stage's expected key(s) (trait scores in range), the result's summary,
\* traits, recommendations and validating_message equal the fields of the
\* responses and no retry call is issued.
C3_Original == PrimaryResponsesValid => ResultEqualsResponses

\* C3 amended: the same, for responses whose values have the expected shape
\* (scores with at most one decimal place, recommendations a list,
\* validating_message a non-empty string).
C3_ValidResponsesPassThrough == PrimaryResponsesWellShaped => ResultEqualsResponses

C3_Witness ==
    /\ pc = "returned"
    /\ PrimaryResponsesWellShaped
    /\ Len(result.traits) = 2
    /\ Len(result.recommendations.a) = 2

\* the summary, traits, recommendations and validating_message of a result
PrimaryFields(r) ==
    <<r.summary, r.traits, r.recommendations, r.validating_message>>

\* what the primary pass computed
PrimaryLocals ==
    <<summary, traits, validator_out.recommendations,
      validator_out.validating_message>>

\* a step of the diagnostic pass goes on to return, with no error, and keeps
\* the result's primary fields those the primary pass computed
DiagnosticStepKeepsResult ==
    pc \in DiagPcs =>
       /\ pc' \in DiagPcs \cup {"returned"}
       /\ error' = "none"
       /\ PrimaryFields(result') = PrimaryFields(result)
       /\ PrimaryFields(result') = PrimaryLocals

\* C4: a failure of a diagnostic re-call is swallowed: from the diagnostic
\* pass the pipeline only goes on to return, with no error, and the summary,
\* traits, recommendations and validating_message of the result stay those
\* the primary pass computed, whether the re-call succeeds or fails.
C4_DiagnosticsSwallowed == [][DiagnosticStepKeepsResult]_vars

\* a run that returned although its last diagnostic re-call got an HTTP error
C4_Witness ==
    /\ pc = "returned"
    /\ error = "none"
    /\ ~replies[Len(replies)].ok
    /\ replies[Len(replies)].err = "RemoteCallError"
    /\ calls[Len(calls)].name \in DiagNames

DiagOrder == <<"trait_agent_raw", "summary_agent_raw", "validator_agent_raw">>

\* the raw entry of the j-th stage
RawEntry(j) ==
    CASE j = 1 -> result.raw.trait_agent
      [] j = 2 -> result.raw.summary_agent
      [] j = 3 -> result.raw.validator_agent

\* the number of diagnostic re-calls made
DiagCount == Cardinality({i \in 1..Len(calls) : calls[i].name \in DiagNames})

\* C5 as stated: a returned run attempted a diagnostic re-call for each of the
\* three stages, and each stage's raw entry is the text of its own re-call if
\* that succeeded and None if it failed.
C5_Original ==
    pc = "returned" =>
       \A j \in 1..3 :
          /\ CallsNamed(DiagOrder[j]) # {}
          /\ RawEntry(j) = IF ReplyOf(DiagOrder[j]).ok
                           THEN StrV(ReplyOf(DiagOrder[j]).text)
                           ELSE NoneV

\* C5 amended: the diagnostic re-calls are attempted in the order trait,
\* summary, validator up to the first failure, which ends the pass: the raw
\* entry of a stage whose re-call succeeded holds the returned text, and the
\* entries of the failing stage and of every later stage stay None.
C5_DiagnosticsStopAtFirstFailure ==
    pc = "returned" =>
       /\ DiagCount \in 1..3
       /\ \A j \in 1..3 :
             IF j <= DiagCount
             THEN /\ calls[Len(calls) - DiagCount + j].name = DiagOrder[j]
                  /\ ReplyOf(DiagOrder[j]).ok <=> (j < DiagCount \/ ~(\E i \in 1..Len(replies) : ~replies[i].ok))
                  /\ RawEntry(j) = IF ReplyOf(DiagOrder[j]).ok
                                   THEN StrV(ReplyOf(DiagOrder[j]).text)
                                   ELSE NoneV
             ELSE /\ CallsNamed(DiagOrder[j]) = {}
                  /\ RawEntry(j) = NoneV
       /\ DiagCount < 3 => ~replies[Len(replies)].ok

\* the trait re-call succeeded, the summary re-call failed and ended the pass
C5_Witness ==
    /\ pc = "returned"
    /\ DiagCount = 2
    /\ result.raw.trait_agent = StrV(ReplyOf("trait_agent_raw").text)
    /\ ~ReplyOf("summary_agent_raw").ok
    /\ result.raw.summary_agent = NoneV
    /\ result.raw.validator_agent = NoneV

\* the primary trait response fails to parse or lacks the "traits" key
PrimaryLacksTraits ==
    /\ Len(replies) >= 1
    /\ replies[1].ok
    /\ LET parsed == safe_json_parse(replies[1].text) IN
       ~(IsDict(parsed) /\ HasKey(parsed, K_traits))

\* a parsed response that is an object containing "traits"
ContainsTraits(parsed) == IsDict(parsed) /\ HasKey(parsed, K_traits)

\* C6 as stated: when the primary trait response fails to parse or lacks
\* "traits", exactly one retry call is issued; a retry response containing
\* "traits" has its entries normalized and returned; a retry response that is
\* unparsable or lacks the key makes the stage return an empty map, without
\* raising and without a further call.
C6_TraitRetryContract ==
    PrimaryLacksTraits =>
       /\ pc # "trait_retry" => Cardinality(CallsNamed("trait_agent")) = 2
       /\ Cardinality(CallsNamed("trait_agent")) <= 2
       /\ (Len(replies) >= 2 /\ replies[2].ok) =>
             LET parsed2 == safe_json_parse(replies[2].text) IN
             /\ Len(replies) = 2 => pc = "summary"
             /\ IF ContainsTraits(parsed2)
                THEN /\ IsDict(GetKey(parsed2, K_traits))
                     /\ traits \in ScoreAll(GetKey(parsed2, K_traits).o, FALSE)
                ELSE traits = <<>>

\* C7 as stated: the prompt of a stage's retry call is the prompt text sent
\* in the stage's primary call of the same run (the template with the current
\* answers substituted) with the "return only JSON" instruction appended, so
\* it contains the user's answers.
C7_RetryPromptKeepsAnswers ==
    \A i \in CallsNamed("trait_agent") :
       i >= 2 =>
          /\ calls[i].prompt = Append(calls[1].prompt, STRICT_SUFFIX)
          /\ \E j \in 1..Len(calls[i].prompt) :
                /\ calls[i].prompt[j].kind = "answers"
                /\ calls[i].prompt[j].ans = AnswerLines(answers)

\* the validator response yields no parsed structure or lacks the expected keys
ValidatorLacksKeys ==
    /\ CallsNamed("validator_agent") # {}
    /\ ReplyOf("validator_agent").ok
    /\ LET parsed == safe_json_parse(ReplyOf("validator_agent").text) IN
       ~(IsDict(parsed) /\ HasKey(parsed, K_recommendations)
                        /\ HasKey(parsed, K_validating_message))

\* the validator response yields nothing the stage takes for a parsed structure
ValidatorUnparsed ==
    /\ CallsNamed("validator_agent") # {}
    /\ ReplyOf("validator_agent").ok
    /\ ~Truthy(safe_json_parse(ReplyOf("validator_agent").text))

C9_SummaryContract ==
    /\ Cardinality(CallsNamed("summary_agent")) <= 1
    /\ pc \in {"validator"} \cup DiagPcs \cup {"returned"} =>
          /\ Cardinality(CallsNamed("summary_agent")) = 1
          /\ LET raw == ReplyOf("summary_agent").text
                 parsed == safe_json_parse(raw) IN
             summary = IF IsDict(parsed) /\ HasKey(parsed, K_summary)
                       THEN GetKey(parsed, K_summary)
                       ELSE StrV(Take(Strip(raw), SummaryLimit))
          /\ summary.t = "str"

\* C10: if the trait stage's retry call fails, the error propagates out of the
\* pipeline: the run ends raised with that error, the failed retry is the last
\* call issued (no later stage, no diagnostic re-call), and no result exists.
C10_RetryErrorPropagates ==
    (Len(replies) >= 2 /\ calls[2].name = "trait_agent" /\ ~replies[2].ok) =>
       /\ pc = "raised"
       /\ error = replies[2].err
       /\ Len(calls) = 2
       /\ DOMAIN result = {}

\* the retry call was answered with an HTTP error status
C10_Witness ==
    /\ Len(replies) = 2
    /\ calls[2].name = "trait_agent"
    /\ ~replies[2].ok
    /\ replies[2].err = "RemoteCallError"
    /\ pc = "raised"

PrimaryNames == {"trait_agent", "summary_agent", "validator_agent"}

\* the position of the primary call of a stage: the first call under its name
IsPrimaryCall(i) ==
    /\ calls[i].name \in PrimaryNames
    /\ \A j \in 1..(i - 1) : calls[j].name # calls[i].name

\* C11 as stated: an error of a primary call propagates only from the stage
\* without a retry path: in the trait and validator stages the failed primary
\* call is followed by one retry call; only a summary primary-call error
\* leaves the pipeline directly.
C11_Original ==
    \A i \in 1..Len(calls) :
       (IsPrimaryCall(i) /\ ~replies[i].ok) =>
          IF calls[i].name = "summary_agent"
          THEN pc = "raised" /\ Len(calls) = i
          ELSE Len(calls) >= i + 1 /\ calls[i + 1].name = calls[i].name

\* C11 amended: an error of the primary call of any of the three stages
\* propagates to the caller directly: the failed call is the last call of the
\* run, no retry call follows it, and the run ends raised with that error and
\* without a result.
C11_PrimaryErrorPropagates ==
    \A i \in 1..Len(calls) :
       (IsPrimaryCall(i) /\ ~replies[i].ok) =>
          /\ pc = "raised"
          /\ error = replies[i].err
          /\ Len(calls) = i
          /\ DOMAIN result = {}

\* the validator's primary call got an HTTP error status and the run raised
C11_Witness ==
    /\ Len(calls) >= 3
    /\ calls[Len(calls)].name = "validator_agent"
    /\ replies[Len(calls)].err = "RemoteCallError"
    /\ pc = "raised"
    /\ Cardinality(CallsNamed("validator_agent")) = 1

\* C12 as stated: without a resolvable API key call_gemini_api fails with the
\* configuration error before any HTTP request; so a run started without a
\* credential fails on the first trait-stage call, with zero outbound
\* requests and no retry.
C12_Original ==
    (~apiKey /\ Len(calls) >= 1) =>
       /\ httpRequests = 0
       /\ pc = "raised"
       /\ error = "ConfigurationError"
       /\ Len(calls) = 1

\* C12 amended: without a resolvable API key no HTTP request is ever sent and
\* every call that falls back to call_gemini_api fails with the configuration
\* error; a primary-pass call failing so ends the run with that error, without
\* a retry.  When CrewAI is unavailable that call is the first trait call.
C12_NoKeyNoRequest ==
    ~apiKey =>
       /\ httpRequests = 0
       /\ \A i \in 1..Len(calls) :
             /\ replies[i].reqs = 0
             /\ ~replies[i].ok =>
                   /\ replies[i].err = "ConfigurationError"
                   /\ i = Len(calls)
                   /\ calls[i].name \in PrimaryNames =>
                         pc = "raised" /\ error = "ConfigurationError"
       /\ (~haveCrewai /\ Len(calls) >= 1) =>
             /\ Len(calls) = 1
             /\ calls[1].name = "trait_agent"
             /\ pc = "raised"
             /\ error = "ConfigurationError"

\* a run without key and without CrewAI, after its one call
C12_Witness ==
    /\ ~apiKey
    /\ ~haveCrewai
    /\ Len(calls) = 1
    /\ replies[1].err = "ConfigurationError"
    /\ httpRequests = 0
    /\ pc = "raised"

\* the substring from the first "{" to the last "}" inclusive, empty if none
BraceSubstring(text) ==
    IF Find(text, "{") # 0 /\ RFind(text, "}") # 0
    THEN SubSeq(text, Find(text, "{"), RFind(text, "}"))
    ELSE <<>>

\* C17: safe_json_parse never raises and returns the parse of the full text
\* when that is valid JSON, otherwise the parse of the substring from the
\* first "{" to the last "}" when that is valid JSON, otherwise None.
C17_SafeJsonParse ==
    (fn = "safe_json_parse" /\ ret.done) =>
       ret.v = IF JsonLoads(arg).ok THEN JsonLoads(arg).v
               ELSE IF JsonLoads(BraceSubstring(arg)).ok
                    THEN JsonLoads(BraceSubstring(arg)).v
                    ELSE NoneV

\* JSON wrapped in prose was recovered
C17_Witness ==
    /\ fn = "safe_json_parse"
    /\ ret.done
    /\ arg = TT_wrapped
    /\ ~JsonLoads(arg).ok
    /\ IsDict(ret.v)
    /\ HasKey(ret.v, K_traits)

\* a trait stage function was applied and returned a trait map
TraitMapReturned ==
    /\ fn \in {"trait_primary", "trait_retry"}
    /\ ret.done
    /\ ret.v.st = "ok"

\* C13: every score of a trait map the trait stage returns, on the primary
\* path or on the retry path and whatever the response gave as the value, is
\* a number within [0, 100] with one decimal place (0..1000 tenths).
C13_ScoresInRange ==
    TraitMapReturned =>
       \A i \in 1..Len(ret.v.traits) : ret.v.traits[i].v \in 0..1000

\* the retry path clamped an out-of-range number
C13_Witness ==
    /\ TraitMapReturned
    /\ fn = "trait_retry"
    /\ arg = ScoreText(SV_high)
    /\ Len(ret.v.traits) = 1
    /\ ret.v.traits[1].v = 1000

\* the values with a numeric reading, and that reading clamped, in tenths
NumericCases ==
    {[val |-> SV_int, score |-> 850], [val |-> SV_high, score |-> 1000],
     [val |-> SV_negative, score |-> 0], [val |-> SV_float, score |-> 405],
     [val |-> SV_numstr, score |-> 700], [val |-> SV_padded, score |-> 600],
     [val |-> SV_percent, score |-> 850],
     [val |-> SV_percent_high, score |-> 1000]}

\* C14 as stated: a value with a numeric reading, a trailing percent sign
\* included ("85%" is 85), is normalized to that reading clamped to [0, 100],
\* for entries of the primary response and of the retry response alike; 0.0
\* is the default only for values without numeric reading.
C14_PercentOnBothPaths ==
    \A c \in NumericCases :
       (fn \in {"trait_primary", "trait_retry"} /\ ret.done
           /\ arg = ScoreText(c.val)) =>
          /\ ret.v.st = "ok"
          /\ Len(ret.v.traits) = 1
          /\ ret.v.traits[1].v = c.score

\* a line without its leading marker: a dash, or a number with an optional
\* point, and the blanks after it
DropMarker(l) ==
    IF l[1] = "-" THEN LStripChars(Tail(l), {" "})
    ELSE LET d == LStripChars(l, Digit) IN
         LStripChars(IF Len(d) > 0 /\ d[1] = "." THEN Tail(d) ELSE d, {" "})

\* the lines that begin with a dash or a digit, each without its marker
RECURSIVE MarkedLines(_)
MarkedLines(lines) ==
    IF Len(lines) = 0 THEN <<>>
    ELSE IF Head(lines)[1] = "-" \/ Head(lines)[1] \in Digit
         THEN <<StrV(DropMarker(Head(lines)))>> \o MarkedLines(Tail(lines))
         ELSE MarkedLines(Tail(lines))

\* C15 as stated: without a parsed structure the recommendations are the
\* non-empty lines that begin with a dash or a digit, with only the leading
\* marker removed (digits of the content are kept), or the first three
\* non-empty lines when no line matches; the validating message is the last
\* non-empty line; for empty text both are empty and nothing is raised.
C15_HeuristicKeepsContent ==
    (fn = "run_validator_agent" /\ ret.done /\ ~Truthy(safe_json_parse(arg))) =>
       LET lines == StrippedNonEmpty(SplitLines(arg)) IN
       /\ ret.v.st = "ok"
       /\ ret.v.recommendations =
             IF Len(MarkedLines(lines)) > 0 THEN ArrV(MarkedLines(lines))
             ELSE ArrV([i \in 1..Len(Take(lines, 3)) |-> StrV(lines[i])])
       /\ ret.v.validating_message =
             IF Len(lines) > 0 THEN StrV(lines[Len(lines)]) ELSE EmptyStr

\* C20 as stated: whenever the validator response parses to a JSON object,
\* the empty object included, the output is taken from the object alone, not
\* from the line heuristic: recommendations is its "recommendations" value if
\* a list and [] otherwise; validating_message is its "validating_message"
\* value, or its "validation" value when that is missing or empty, or "".
C20_ObjectAlone ==
    (fn = "run_validator_agent" /\ ret.done /\ IsDict(safe_json_parse(arg))) =>
       LET o == safe_json_parse(arg) IN
       /\ ret.v.st = "ok"
       /\ ret.v.recommendations =
             IF HasKey(o, K_recommendations)
                /\ GetKey(o, K_recommendations).t = "arr"
             THEN GetKey(o, K_recommendations) ELSE EmptyList
       /\ ret.v.validating_message =
             IF HasKey(o, K_validating_message)
                /\ GetKey(o, K_validating_message) # EmptyStr
             THEN GetKey(o, K_validating_message)
             ELSE IF HasKey(o, K_validation) THEN GetKey(o, K_validation)
             ELSE EmptyStr

\* call_gemini_api was applied to a status-200 response with a JSON body
BodyDecoded ==
    /\ fn = "call_gemini_api"
    /\ ret.done
    /\ arg.status = 200
    /\ JsonLoads(arg.body).ok

\* C16 as stated: for a decoded body of mappings and sequences the extraction
\* never fails; it returns the texts of the first candidate's known shapes if
\* they yield any; whenever they yield nothing the scan for "text" fields over
\* the whole body is performed and its findings, joined by newlines, are
\* returned; the JSON re-serialization of the body is returned only if
\* neither path finds any text.
C16_ExtractionPriority ==
    BodyDecoded =>
       LET data == JsonLoads(arg.body).v
           found == find_texts(data) IN
       /\ ret.v.ok
       /\ ret.v.text = json_dumps(data) => Len(found) = 0
       /\ (KnownShapes(data).st # "text" /\ Len(found) > 0) =>
             ret.v.text = JoinLines(found)

\* C19 as stated: an invocation of call_gemini_api with a resolvable
\* credential sends exactly one HTTP request, without retry; it returns the
\* extracted text when the status is a 2xx status and fails with an error
\* carrying status and body for every other status.
C19_Original ==
    apiKey =>
       /\ httpRequests = Len(replies)
       /\ \A i \in 1..Len(replies) :
             /\ replies[i].reqs = 1
             /\ replies[i].status \in 200..299 => replies[i].ok
             /\ (replies[i].status # 0 /\ replies[i].status \notin 200..299) =>
                   /\ ~replies[i].ok
                   /\ replies[i].err = "RemoteCallError"
                   /\ replies[i].body = ErrorBody

\* C19 amended: an invocation with a resolvable credential sends exactly one
\* HTTP request, without retry; it returns the extracted text only for status
\* 200 with a body that decodes as JSON, and fails with an error carrying
\* status and body for every status other than 200, other 2xx statuses
\* included.
C19_OneRequestStatus200 ==
    apiKey =>
       /\ httpRequests = Len(replies)
       /\ \A i \in 1..Len(replies) :
             /\ replies[i].reqs = 1
             /\ replies[i].ok => replies[i].status = 200
             /\ (replies[i].status = 200 /\ ~replies[i].ok) =>
                   replies[i].err = "JSONDecodeError"
             /\ replies[i].status \notin {0, 200} =>
                   /\ ~replies[i].ok
                   /\ replies[i].err = "RemoteCallError"
                   /\ replies[i].body = ErrorBody
             /\ replies[i].status = 0 => replies[i].err = "RequestException"

\* a call that returned text, then a call answered with status 201
C19_Witness ==
    /\ apiKey
    /\ Len(replies) = 2
    /\ replies[1].ok
    /\ replies[1].status = 200
    /\ replies[2].status = 201
    /\ replies[2].err = "RemoteCallError"
    /\ httpRequests = 2

\* at most one call per primary stage plus one retry of the trait stage, and
\* at most one diagnostic re-call per stage
CallBounds ==
    /\ Cardinality(CallsNamed("trait_agent")) <= 2
    /\ \A n \in (PrimaryNames \ {"trait_agent"}) \cup DiagNames :
          Cardinality(CallsNamed(n)) <= 1
    /\ Len(calls) <= 7

Terminated == pc \in {"returned", "raised"}

\* C18: every run terminates after a bounded number of outbound calls: at most
\* 3 primary calls, at most one retry per retrying stage and at most 3
\* diagnostic re-calls, and then it returns or raises.
C18_BoundedRun == []CallBounds /\ <>Terminated

\* a run that returned after all seven calls
C18_Witness ==
    /\ pc = "returned"
    /\ Len(calls) = 7
    /\ Cardinality(CallsNamed("trait_agent")) = 2
    /\ \A i \in 1..7 : replies[i].ok

====
